---- MODULE Spec2Model ----
(***************************************************************************)
(* A model of the EV charging-station ETL pipeline: paginated extraction   *)
(* (etl_pipeline.py extract_charging_stations), transformation with the    *)
(* geocoding cache (transform_stations) and the SQLite upsert loader       *)
(* (database.py init_db / load_to_db).                                     *)
(***************************************************************************)
EXTENDS Integers, Sequences, FiniteSets, TLC

VARIABLES
    stations,       \* committed rows of table "stations" in charging_stations.db
    conn,           \* the sqlite3 connection: [open, pending, view]
    last,           \* the last load_to_db call: [n, batch, fault, outcome]
    expected,       \* the table as all-or-nothing loads would have left it
    api,            \* the listing API: the response to the request at each page
    max_pages,      \* extract_charging_stations(max_pages); 0 is None
    skip,           \* extract: offset of the next request
    page,           \* extract: number of the current page
    all_stations,   \* extract: records accumulated so far
    requests,       \* the offsets requested so far, in order
    df,             \* the frame extract returned
    pc,             \* where the run is
    err,            \* the exception that ended the run, if any
    cacheFile,      \* geocoding_cache.json: [exists, valid, data]
    geocode_cache,  \* transform: the in-memory cache, key -> city
    work,           \* transform: the frame's rows after STEP 1 and STEP 2
    cities,         \* transform: the city column, as far as df.apply has come
    df_clean,       \* the frame transform returned
    svc,            \* whether the reverse-geocoding service answers in this pass
    runs,           \* transform passes started
    lookups,        \* the geolocator.reverse calls, [ll, city], of the completed
                    \* passes since the last killed one and of the current pass
    durable,        \* the entries that a completed write put in the cache file
    wrote           \* the cache file was opened for writing

dbVars == <<stations, conn, last, expected>>

exVars == <<api, max_pages, skip, page, all_stations, requests, df>>

trVars == <<cacheFile, geocode_cache, work, cities, df_clean, svc, runs,
            lookups, durable, wrote>>

vars == <<stations, conn, last, expected,
          api, max_pages, skip, page, all_stations, requests, df, pc, err,
          cacheFile, geocode_cache, work, cities, df_clean, svc, runs,
          lookups, durable, wrote>>

(***************************************************************************)
(* Bounds of the model.                                                    *)
(***************************************************************************)
MaxId == 2

(***************************************************************************)
(* Generic helpers.                                                        *)
(***************************************************************************)
Range(s) == {s[i] : i \in 1..Len(s)}

SeqsUpTo(S, n) == UNION {[1..k -> S] : k \in 0..n}

(***************************************************************************)
(* database.py                                                             *)
(***************************************************************************)
\* Columns of CREATE TABLE stations.
TableColumns ==
    {"id", "name", "latitude", "longitude", "address", "operator_clean",
     "city", "is_offline", "days_since_update", "last_updated"}

\* df["id"].tolist()
IdList(rows) == [i \in 1..Len(rows) |-> rows[i].id]

\* DELETE FROM stations WHERE id IN (ids), on the connection's view.
DeleteIdsNone(view, ids) == view

DeleteIds(view, ids) == {r \in view : r.id \notin Range(ids)}

\* INSERT of the frame's rows one by one; id is the PRIMARY KEY, so a row
\* whose id is already in the table raises IntegrityError.
RECURSIVE InsertRows(_, _, _)
InsertRows(view, rows, i) ==
    IF i > Len(rows) THEN [ok |-> TRUE, view |-> view]
    ELSE IF \E r \in view : r.id = rows[i].id
         THEN [ok |-> FALSE, view |-> view]
         ELSE InsertRows(view \cup {rows[i]}, rows, i + 1)

\* df.to_sql("stations", conn, if_exists="append", index=False): the table
\* exists (init_db), so the frame's columns must all be columns of it.
\* fault = "statement": a statement of the insert fails (disk, lock).
ToSql(view, frame, fault) ==
    IF fault = "statement" \/ ~(frame.columns \subseteq TableColumns)
    THEN [ok |-> FALSE, view |-> view]
    ELSE InsertRows(view, frame.rows, 1)

NoDf == [columns |-> {}, rows |-> <<>>]

EmptyCache == [k \in {} |-> ""]

\* No geocoding_cache.json.
Absent == [exists |-> FALSE, valid |-> FALSE, data |-> EmptyCache]

\* No transform pass has run.
TransformIdle ==
    /\ geocode_cache = EmptyCache /\ work = <<>> /\ cities = <<>>
    /\ df_clean = NoDf /\ runs = 0 /\ lookups = <<>>
    /\ wrote = FALSE

\* What can go wrong in a call besides the data: nothing; the library rejects
\* the frame before it issues any statement (a column type it cannot store);
\* a statement of the insert fails; conn.commit() fails (database locked).
Faults == {"none", "rejected", "statement", "commit"}

\* load_to_db(df, conn) on connection c to a table with these committed
\* rows: DELETE, to_sql, commit, with no rollback of its own.  The
\* connection opens a transaction at the DELETE.  The library runs its
\* INSERTs in a transaction that it rolls back when one of them fails, which
\* takes the DELETE with it; a frame it rejects before that, and a failing
\* commit, leave the transaction open on the connection.
LoadEffect(c, committed, frame, fault) ==
    IF "id" \notin frame.columns
    THEN \* df["id"] raises KeyError before any statement
         [outcome |-> "error", pending |-> c.pending, view |-> c.view,
          committed |-> committed]
    ELSE LET ids == IdList(frame.rows)
             deleted == DeleteIds(c.view, ids)
             ins == ToSql(deleted, frame, fault)
         IN IF fault = "rejected"
            THEN [outcome |-> "error", pending |-> TRUE, view |-> deleted,
                  committed |-> committed]
            ELSE IF ~ins.ok
            THEN [outcome |-> "error", pending |-> FALSE, view |-> committed,
                  committed |-> committed]
            ELSE IF fault = "commit"
            THEN [outcome |-> "error", pending |-> TRUE, view |-> ins.view,
                  committed |-> committed]
            ELSE \* conn.commit()
                 [outcome |-> "ok", pending |-> FALSE, view |-> ins.view,
                  committed |-> ins.view]

\* The record of a call, and the table that all-or-nothing loads leave.
CallOf(frame, fault, outcome) ==
    [seq |-> 1 - last.seq, df |-> frame, fault |-> fault, outcome |-> outcome,
     repeat |-> last.outcome = "ok" /\ last.df = frame]

ExpectedAfter(frame, outcome) ==
    IF outcome = "ok"
    THEN {r \in expected : \A i \in 1..Len(frame.rows) : frame.rows[i].id # r.id}
         \cup Range(frame.rows)
    ELSE expected

LoadToDb(frame, fault) ==
    /\ conn.open
    /\ LET e == LoadEffect(conn, stations, frame, fault)
       IN /\ stations' = e.committed
          /\ conn' = [open |-> TRUE, pending |-> e.pending, view |-> e.view]
          /\ last' = CallOf(frame, fault, e.outcome)
          /\ expected' = ExpectedAfter(frame, e.outcome)

\* conn.close(): an uncommitted transaction is rolled back.
ConnClose ==
    /\ conn.open
    /\ conn' = [open |-> FALSE, pending |-> FALSE, view |-> stations]
    /\ UNCHANGED <<stations, last, expected>>

\* init_db(): connect, CREATE TABLE / INDEX IF NOT EXISTS, commit.
init_db ==
    /\ ~conn.open
    /\ conn' = [open |-> TRUE, pending |-> FALSE, view |-> stations]
    /\ UNCHANGED <<stations, last, expected>>

(***************************************************************************)
(* The loader on its own: any table that init_db can find, and any caller  *)
(* of load_to_db on one connection.                                        *)
(***************************************************************************)
Cities == {"Shanghai", "Beijing"}

DbRows == [id : 1..MaxId, city : Cities]

Tables == {t \in SUBSET DbRows : \A r, q \in t : r.id = q.id => r = q}

\* The rows of a set of identifiers, in increasing order.
RECURSIVE AscendingIds(_)
AscendingIds(S) ==
    IF S = {} THEN <<>>
    ELSE LET m == CHOOSE x \in S : \A y \in S : x <= y
         IN <<m>> \o AscendingIds(S \ {m})

FrameOf(columns, ids, city) ==
    [columns |-> columns,
     rows |-> [i \in 1..Len(ids) |-> [id |-> ids[i], city |-> city]]]

\* The frames a caller loads: one revision of the rows of a set of
\* identifiers with the table's columns, and the frames that cannot be
\* loaded: an identifier twice, a column the table lacks, no id column.
LoadFrames ==
    {FrameOf({"id", "city"}, AscendingIds(S), city) :
        S \in SUBSET (1..MaxId), city \in Cities}
    \cup {FrameOf({"id", "city"}, <<1, 1>>, "Shanghai"),
          FrameOf({"id", "city", "operator"}, <<1>>, "Shanghai"),
          [columns |-> {"city"}, rows |-> <<[city |-> "Shanghai"]>>]}

InitLoad ==
    /\ stations \in Tables
    /\ conn = [open |-> TRUE, pending |-> FALSE, view |-> stations]
    /\ last = [seq |-> 0, df |-> NoDf, fault |-> "none", outcome |-> "none",
               repeat |-> FALSE]
    /\ expected = stations
    /\ api = <<>> /\ max_pages = 0 /\ skip = 0 /\ page = 0
    /\ all_stations = <<>> /\ requests = <<>> /\ df = NoDf
    /\ pc = "load" /\ err = ""
    /\ cacheFile = Absent /\ TransformIdle /\ svc = TRUE /\ durable = {}

\* A caller of database.py: load_to_db, conn.close(), init_db.
LoadCall ==
    /\ \E frame \in LoadFrames, fault \in Faults : LoadToDb(frame, fault)
    /\ UNCHANGED <<exVars, trVars, pc, err>>

CloseCall == ConnClose /\ UNCHANGED <<exVars, trVars, pc, err>>

InitDbCall == init_db /\ UNCHANGED <<exVars, trVars, pc, err>>

NextLoad == LoadCall \/ CloseCall \/ InitDbCall

SpecLoad == InitLoad /\ [][NextLoad]_vars

\* C1: loading the same batch (unique identifiers) a second time, right after
\* a successful load of it, succeeds and leaves the stations table exactly as
\* the first load left it: same rows, same count, same field values.
C1_LoadIdempotent ==
    [][(last'.seq # last.seq /\ last'.repeat /\ last'.fault = "none") =>
          /\ last'.outcome = "ok"
          /\ stations' = stations
          /\ Cardinality(stations') = Cardinality(stations)]_vars

C1_Witness ==
    /\ last.repeat /\ last.fault = "none" /\ last.outcome = "ok"
    /\ Len(last.df.rows) >= 1
    /\ Range(last.df.rows) \subseteq stations
    /\ stations # Range(last.df.rows)

\* C2: when load_to_db fails after its DELETE has run, the stations table
\* keeps the rows it held before the call, also after any later commit on
\* the same connection: the committed table is always the one that
\* all-or-nothing loads would have produced.
C2_LoadAtomic == stations = expected

(***************************************************************************)
(* etl_pipeline.py: strings.  A string is the sequence of its characters,  *)
(* so that lower-casing and substring search are computed, not assumed.    *)
(***************************************************************************)
UpperChars ==
    <<"A", "B", "C", "D", "E", "F", "G", "H", "I", "J", "K", "L", "M", "N", "O", "P", "Q", "R", "S", "T", "U", "V", "W", "X", "Y", "Z">>

LowerChars ==
    <<"a", "b", "c", "d", "e", "f", "g", "h", "i", "j", "k", "l", "m", "n", "o", "p", "q", "r", "s", "t", "u", "v", "w", "x", "y", "z">>

\* str.lower() of one character, then of a string.
LowerChar(c) ==
    IF \E i \in 1..26 : UpperChars[i] = c
    THEN LowerChars[CHOOSE i \in 1..26 : UpperChars[i] = c]
    ELSE c

Lower(str) == [i \in 1..Len(str) |-> LowerChar(str[i])]

\* str.contains(sub): sub occurs in str (case-sensitive).
Contains(str, sub) ==
    \E i \in 1..(Len(str) - Len(sub) + 1) : SubSeq(str, i, i + Len(sub) - 1) = sub

sTesla == <<"T", "e", "s", "l", "a">>
sBP == <<"B", "P">>
sShell == <<"S", "h", "e", "l", "l">>
sOther == <<"O", "t", "h", "e", "r">>
sUnknown == <<"U", "n", "k", "n", "o", "w", "n">>
s_tesla == <<"t", "e", "s", "l", "a">>
s_bp == <<"b", "p">>
s_shell == <<"s", "h", "e", "l", "l">>

\* The operator titles the listing API reports.
OperatorTitles ==
    {<<"T", "e", "s", "l", "a", " ", "B", "P", " ", "S", "u", "p", "e", "r", "c", "h", "a", "r", "g", "e", "r">>,
     <<"T", "e", "s", "l", "a", " ", "S", "u", "p", "e", "r", "c", "h", "a", "r", "g", "e", "r">>,
     <<"U", "n", "k", "n", "o", "w", "n", " ", "C", "o">>,
     <<"b", "p", " ", "p", "u", "l", "s", "e">>,
     <<"S", "H", "E", "L", "L", " ", "R", "e", "c", "h", "a", "r", "g", "e">>,
     <<"S", "t", "a", "t", "e", " ", "G", "r", "i", "d">>}

\* transform_stations STEP 2, on one value of the column: lower-case, then
\* the three .loc[contains(...)] assignments in order, each reading the
\* column as the previous one left it, then the final ~isin([...]) one.
AfterTesla(oc) == IF Contains(oc, s_tesla) THEN sTesla ELSE oc

AfterBP(oc) == IF Contains(oc, s_bp) THEN sBP ELSE oc

AfterShell(oc) == IF Contains(oc, s_shell) THEN sShell ELSE oc

AfterOther(oc) == IF oc \notin {s_tesla, s_bp, s_shell} THEN sOther ELSE oc

OperatorClean(operator) == AfterOther(AfterShell(AfterBP(AfterTesla(Lower(operator)))))

(***************************************************************************)
(* etl_pipeline.py: extract_charging_stations                              *)
(***************************************************************************)
PageSize == 500

HoursPerDay == 24

\* pd.Timestamp.now(), in hours.
Now == HoursPerDay * 1000

\* A date field of the API: absent (null), an empty string, a text that is
\* no date, or a timestamp (in hours).
NoDate == [k |-> "null", h |-> 0]
EmptyDate == [k |-> "empty", h |-> 0]
BadDate == [k |-> "text", h |-> 0]
DateAt(h) == [k |-> "ts", h |-> h]
AgedDays(d, h) == DateAt(Now - (d * HoursPerDay + h))

\* Coordinates are in units of 0.0001 degree.  Two values stand for what is
\* no number: None, the null of the API, and NaN, what pandas makes of a None
\* in a column of numbers.
NoneCoord == 9999999
NaNCoord == 9999998

Coords == {<<312304, 1214737>>, <<312296, 1214741>>, <<399042, 1164074>>, <<0, 0>>}

RawStation(id, addr, ll, op, confirmed, updated) ==
    [ID |-> id, AddressInfo |-> addr, Latitude |-> ll[1], Longitude |-> ll[2],
     OperatorInfo |-> op, DateLastConfirmed |-> confirmed,
     DateLastStatusUpdate |-> updated]

NoOperator == [k |-> "absent", Title |-> <<>>]
Operator(title) == [k |-> "title", Title |-> title]

\* x or y or "Unknown" on the two date fields: null and "" are falsy.
LastUpdatedOf(station) ==
    IF station.DateLastConfirmed.k \in {"ts", "text"} THEN station.DateLastConfirmed
    ELSE IF station.DateLastStatusUpdate.k \in {"ts", "text"}
         THEN station.DateLastStatusUpdate
         ELSE BadDate \* the string "Unknown"

\* station_info of one station; AddressInfo is required (KeyError without).
Mappable(station) == station.AddressInfo

StationInfo(station) ==
    [id |-> station.ID, latitude |-> station.Latitude,
     longitude |-> station.Longitude,
     operator |-> IF station.OperatorInfo.k = "title"
                  THEN station.OperatorInfo.Title ELSE sUnknown,
     last_updated |-> LastUpdatedOf(station)]

RawColumns ==
    {"id", "name", "latitude", "longitude", "address", "operator", "last_updated"}

\* The values of a column that pd.DataFrame infers: where some row has a
\* number the column is a float column and a None in it is NaN; a column of
\* None only keeps its None objects.
Inferred(v, allNone) == IF v = NoneCoord /\ ~allNone THEN NaNCoord ELSE v

\* pd.DataFrame(all_stations): a frame built from no records has no columns.
DataFrame(rows) ==
    LET noLat == \A i \in 1..Len(rows) : rows[i].latitude = NoneCoord
        noLon == \A i \in 1..Len(rows) : rows[i].longitude = NoneCoord
    IN [columns |-> IF Len(rows) = 0 THEN {} ELSE RawColumns,
        rows |-> [i \in 1..Len(rows) |->
                    [rows[i] EXCEPT !.latitude = Inferred(@, noLat),
                                    !.longitude = Inferred(@, noLon)]]]

\* The response to the request with this offset; past the data, an empty list.
OkPage(data) == [status |-> 200, text |-> TRUE, data |-> data]
EmptyBody == [status |-> 200, text |-> FALSE, data |-> <<>>]
ErrorPage == [status |-> 500, text |-> TRUE, data |-> <<>>]

ResponseAt(offset) ==
    LET n == (offset \div PageSize) + 1
    IN IF n <= Len(api) THEN api[n] ELSE OkPage(<<>>)

\* What the loop does with a status code.
StatusRaisesNever(status) == FALSE

StatusRaises(status) == status # 200

\* skip += 500
NextSkipByOne(offset) == offset + 1

NextSkip(offset) == offset + PageSize

\* One iteration of the while loop: the request, the checks, the mapping of
\* the page's stations, the page limit.
FetchPage ==
    /\ pc = "extract"
    /\ LET response == ResponseAt(skip)
           mapped == [i \in 1..Len(response.data) |-> StationInfo(response.data[i])]
           stop(rows) == /\ df' = DataFrame(rows)
                         /\ pc' = "transform"
                         /\ err' = err
       IN /\ page' = page + 1
          /\ requests' = Append(requests, skip)
          /\ IF StatusRaises(response.status)
             THEN /\ pc' = "extract_failed" /\ err' = "status"
                  /\ UNCHANGED <<skip, all_stations, df>>
             ELSE IF ~response.text \/ Len(response.data) = 0
             THEN /\ stop(all_stations)
                  /\ UNCHANGED <<skip, all_stations>>
             ELSE IF \E i \in 1..Len(response.data) : ~Mappable(response.data[i])
             THEN /\ pc' = "extract_failed" /\ err' = "KeyError"
                  /\ UNCHANGED <<skip, all_stations, df>>
             ELSE /\ all_stations' = all_stations \o mapped
                  /\ skip' = NextSkip(skip)
                  /\ IF max_pages # 0 /\ page' >= max_pages
                     THEN stop(all_stations')
                     ELSE UNCHANGED <<df, pc, err>>
    /\ UNCHANGED <<api, max_pages, dbVars, trVars>>

(***************************************************************************)
(* etl_pipeline.py: transform_stations, the pure steps                     *)
(***************************************************************************)
FlushEvery == 50

OfflineDays == 90

\* drop_duplicates with keep="last".
RECURSIVE DropDuplicatesLast(_)
DropDuplicatesLast(rows) ==
    IF Len(rows) = 0 THEN <<>>
    ELSE LET rest == DropDuplicatesLast(Tail(rows))
         IN IF \E i \in 2..Len(rows) : rows[i].id = rows[1].id
            THEN rest ELSE <<rows[1]>> \o rest

\* df.drop_duplicates(subset=["id"]): the first row of each id, in order.
RECURSIVE DropDuplicates(_)
DropDuplicates(rows) ==
    IF Len(rows) = 0 THEN <<>>
    ELSE LET init == DropDuplicates(SubSeq(rows, 1, Len(rows) - 1))
             r == rows[Len(rows)]
         IN IF \E i \in 1..(Len(rows) - 1) : rows[i].id = r.id
            THEN init ELSE Append(init, r)

\* f"{x:.3f}" of a coordinate given in 0.0001 degree: thousandths, rounded.
Round3(x) == IF x = NaNCoord THEN NaNCoord ELSE (x + 5) \div 10

\* The format specification .3f on None raises TypeError; on NaN it gives "nan".
KeyRaises(lat, lon) == lat = NoneCoord \/ lon = NoneCoord

\* key = f"{lat:.3f},{lon:.3f}"
Key(lat, lon) == <<Round3(lat), Round3(lon)>>

\* The address the service holds for a place: its "city" and "town"
\* attributes ("" for an attribute it lacks), or no location at all.
Address(city, town) == [found |-> TRUE, city |-> city, town |-> town]
NoLocation == [found |-> FALSE, city |-> "", town |-> ""]

Place(lat, lon) ==
    CASE <<lat, lon>> = <<312304, 1214737>> -> Address("Shanghai", "")
      [] <<lat, lon>> = <<312296, 1214741>> -> Address("", "Pudong")
      [] <<lat, lon>> = <<399042, 1164074>> -> Address("", "")
      [] <<lat, lon>> = <<0, 0>> -> NoLocation
      [] OTHER -> Address("Shanghai", "Pudong")

\* address.get("city", address.get("town", "Unknown"))
CityOf(address) ==
    IF address.city # "" THEN address.city
    ELSE IF address.town # "" THEN address.town ELSE "Unknown"

\* The try block up to the city: geolocator.reverse raises when the service
\* is down and on a query that is no coordinate pair ("nan, nan"), and
\* location.raw raises when there is no location.
LookupRaises(lat, lon) ==
    ~svc \/ lat = NaNCoord \/ lon = NaNCoord \/ ~Place(lat, lon).found

\* except: geocode_cache[key] = "Unknown"
FailureEntryNone(cache, key) == cache

FailureEntry(cache, key) == cache @@ (key :> "Unknown")

\* if len(geocode_cache) % 50 == 0, in the try block only
PeriodicFlushDue(cache) == Cardinality(DOMAIN cache) % FlushEvery = 0

\* pd.to_datetime(..., errors='coerce'): NaT for what is no date.
NaN == [defined |-> FALSE, v |-> 0]
Defined(n) == [defined |-> TRUE, v |-> n]

ToDatetime(d) == IF d.k = "ts" THEN Defined(d.h) ELSE NaN

\* (today - last_updated).dt.days: whole days, rounded down; NaN for NaT.
DaysSince(today, t) ==
    IF t.defined THEN Defined((today - t.v) \div HoursPerDay) ELSE NaN

\* df["days_since_update"] > 90: a comparison with NaN is False.
IsOfflineFrom90(days) == days.defined /\ days.v >= OfflineDays

IsOffline(days) == days.defined /\ days.v > OfflineDays

CleanColumns ==
    RawColumns \cup {"operator_clean", "city", "days_since_update", "is_offline"}

\* A row of the returned frame.
CleanRow(row, city) ==
    LET t == ToDatetime(row.last_updated)
        days == DaysSince(Now, t)
    IN [id |-> row.id, latitude |-> row.latitude, longitude |-> row.longitude,
        operator |-> row.operator, operator_clean |-> row.operator_clean,
        city |-> city, last_updated |-> t, days_since_update |-> days,
        is_offline |-> IsOffline(days)]

FileData == IF cacheFile.exists /\ cacheFile.valid THEN cacheFile.data ELSE EmptyCache

\* A cache load that falls back to an empty cache on a file it cannot parse.
CacheLoadRaisesNever(file) == FALSE

\* json.load(f) of an existing file that holds no JSON document raises.
CacheLoadRaises(file) == file.exists /\ ~file.valid

\* A file cut off in the middle of its JSON text: the bytes of one entry.
Corrupt == [exists |-> TRUE, valid |-> FALSE, data |-> ((<<0, 0>>) :> "Sha")]

Pairs(cache) == {<<k, cache[k]>> : k \in DOMAIN cache}

\* open(cache_file, 'w'): the file is emptied before json.dump writes it.
Truncated == [exists |-> TRUE, valid |-> FALSE, data |-> EmptyCache]

Written(cache) == [exists |-> TRUE, valid |-> TRUE, data |-> cache]

(***************************************************************************)
(* etl_pipeline.py: transform_stations, step by step.  The pass is cut at  *)
(* each row of df.apply and inside each write of the cache file, which are *)
(* the points where a killed process leaves a different file behind.       *)
(***************************************************************************)
MaxRuns == 2

\* STEP 1, STEP 2 and the load of the cache file.
TransformBegin ==
    /\ pc = "transform"
    /\ IF "id" \notin df.columns
       THEN \* drop_duplicates(subset=["id"]) raises KeyError
            /\ pc' = "transform_failed" /\ err' = "KeyError"
            /\ UNCHANGED <<geocode_cache, work, cities>>
       ELSE IF CacheLoadRaises(cacheFile)
       THEN \* json.load raises
            /\ pc' = "transform_failed" /\ err' = "JSONDecodeError"
            /\ UNCHANGED <<geocode_cache, work, cities>>
       ELSE /\ work' = LET rows == DropDuplicates(df.rows)
                       IN [i \in 1..Len(rows) |->
                             [id |-> rows[i].id, latitude |-> rows[i].latitude,
                              longitude |-> rows[i].longitude,
                              operator |-> rows[i].operator,
                              last_updated |-> rows[i].last_updated,
                              operator_clean |-> OperatorClean(rows[i].operator)]]
            /\ geocode_cache' = FileData
            /\ cities' = <<>>
            /\ pc' = "geocode"
            /\ UNCHANGED err
    /\ UNCHANGED <<dbVars, exVars, cacheFile, df_clean, svc, runs,
                   lookups, durable, wrote>>

\* get_city_cached for the next row of df.apply.
GeocodeRow ==
    /\ pc = "geocode"
    /\ Len(cities) < Len(work)
    /\ LET row == work[Len(cities) + 1]
           lat == row.latitude
           lon == row.longitude
           key == Key(lat, lon)
       IN IF KeyRaises(lat, lon)
          THEN \* raised outside the try block: df.apply and the pass end here
               /\ pc' = "transform_failed" /\ err' = "TypeError"
               /\ UNCHANGED <<geocode_cache, cities, cacheFile, lookups, wrote>>
          ELSE IF key \in DOMAIN geocode_cache
          THEN /\ cities' = Append(cities, geocode_cache[key])
               /\ UNCHANGED <<geocode_cache, cacheFile, pc, err, lookups, wrote>>
          ELSE IF LookupRaises(lat, lon)
          THEN /\ geocode_cache' = FailureEntry(geocode_cache, key)
               /\ cities' = Append(cities, "Unknown")
               /\ lookups' = Append(lookups, [ll |-> <<lat, lon>>, city |-> "Unknown"])
               /\ UNCHANGED <<cacheFile, pc, err, wrote>>
          ELSE LET city == CityOf(Place(lat, lon))
                   cache == geocode_cache @@ (key :> city)
               IN /\ geocode_cache' = cache
                  /\ cities' = Append(cities, city)
                  /\ lookups' = Append(lookups, [ll |-> <<lat, lon>>, city |-> city])
                  /\ err' = err
                  /\ IF PeriodicFlushDue(cache)
                     THEN /\ cacheFile' = Truncated
                          /\ wrote' = TRUE
                          /\ pc' = "flush"
                     ELSE UNCHANGED <<cacheFile, pc, wrote>>
    /\ UNCHANGED <<dbVars, exVars, work, df_clean, svc, runs,
                   durable>>

\* json.dump of the periodic save completes.
FlushDump ==
    /\ pc = "flush"
    /\ cacheFile' = Written(geocode_cache)
    /\ durable' = durable \cup Pairs(geocode_cache)
    /\ pc' = "geocode"
    /\ UNCHANGED <<dbVars, exVars, err, geocode_cache, work, cities, df_clean, svc,
                   runs, lookups, wrote>>

\* "Save the final cache": open(cache_file, 'w') after the last row.
FinalFlushOpen ==
    /\ pc = "geocode"
    /\ Len(cities) = Len(work)
    /\ cacheFile' = Truncated
    /\ wrote' = TRUE
    /\ pc' = "final_flush"
    /\ UNCHANGED <<dbVars, exVars, err, geocode_cache, work, cities, df_clean, svc,
                   runs, lookups, durable>>

\* json.dump of the final save, then STEP 4 and return df.
TransformEnd ==
    /\ pc = "final_flush"
    /\ cacheFile' = Written(geocode_cache)
    /\ durable' = durable \cup Pairs(geocode_cache)
    /\ df_clean' = [columns |-> CleanColumns,
                    rows |-> [i \in 1..Len(work) |-> CleanRow(work[i], cities[i])]]
    /\ pc' = "load"
    /\ UNCHANGED <<dbVars, exVars, err, geocode_cache, work, cities, svc, runs,
                   lookups, wrote>>

\* The process is killed during a pass: what it held in memory is gone, the
\* cache file stays as the last write left it.
Crash ==
    /\ pc \in {"geocode", "flush", "final_flush"}
    /\ pc' = "crashed"
    /\ geocode_cache' = EmptyCache
    /\ work' = <<>>
    /\ cities' = <<>>
    /\ lookups' = <<>>
    /\ UNCHANGED <<dbVars, exVars, err, cacheFile, df_clean, svc, runs,
                   durable, wrote>>

\* A later run transforms the same records again.
NextPass ==
    /\ pc \in {"load", "crashed"}
    /\ runs < MaxRuns
    /\ runs' = runs + 1
    /\ pc' = "transform"
    /\ geocode_cache' = EmptyCache
    /\ work' = <<>>
    /\ cities' = <<>>
    /\ df_clean' = NoDf
    /\ svc' \in BOOLEAN
    /\ UNCHANGED <<dbVars, exVars, err, cacheFile, lookups, durable, wrote>>

(***************************************************************************)
(* Transform passes on their own: the records of a batch, the cache file   *)
(* that earlier runs left, the service up or down.                         *)
(***************************************************************************)
MaxBatch == 3
LongBatch == 52

Record(id, ll, operator, last_updated) ==
    [id |-> id, latitude |-> ll[1], longitude |-> ll[2], operator |-> operator,
     last_updated |-> last_updated]

Dates ==
    {AgedDays(5, 0), AgedDays(90, 0), AgedDays(90, 23), AgedDays(91, 0),
     AgedDays(200, 0), AgedDays(-1, 0), BadDate}

\* Every record of one identifier.
SingleRecords ==
    {Record(1, ll, op, d) : ll \in Coords, op \in OperatorTitles \cup {sUnknown},
                            d \in Dates}

\* Records that share an identifier or a cache key.
PoolRecords ==
    {Record(1, <<312304, 1214737>>, sUnknown, AgedDays(200, 0)),
     Record(2, <<312296, 1214741>>, sUnknown, AgedDays(5, 0)),
     Record(1, <<399042, 1164074>>, sUnknown, BadDate),
     Record(3, <<0, 0>>, sUnknown, AgedDays(90, 0))}

\* Records of stations for which the API has a null coordinate.
NullRecords ==
    {Record(1, <<NoneCoord, 1214737>>, sUnknown, BadDate),
     Record(2, <<312296, NoneCoord>>, sUnknown, AgedDays(5, 0)),
     Record(3, <<312304, 1214737>>, sUnknown, AgedDays(91, 0))}

\* A batch of records that are all at different cache keys.
LongRows == [i \in 1..LongBatch |-> Record(i, <<10 * i + 1, 0>>, sUnknown, BadDate)]

\* A cache file that earlier runs left with n entries.
Filler(n) == [k \in {<<0 - j, 0>> : j \in 1..n} |-> "Filler"]

InitialFiles ==
    {Absent, Corrupt, Written(Filler(FlushEvery - 1)),
     Written(Filler(FlushEvery - 2) @@ (Key(312304, 1214737) :> "Shanghai"))}

InitTransform ==
    /\ stations = {}
    /\ conn = [open |-> FALSE, pending |-> FALSE, view |-> {}]
    /\ last = [seq |-> 0, df |-> NoDf, fault |-> "none", outcome |-> "none",
               repeat |-> FALSE]
    /\ expected = {}
    /\ api = <<>> /\ max_pages = 0 /\ skip = 0 /\ page = 0
    /\ all_stations = <<>> /\ requests = <<>>
    /\ pc = "transform" /\ err = ""
    /\ geocode_cache = EmptyCache /\ work = <<>> /\ cities = <<>>
    /\ df_clean = NoDf /\ runs = 1 /\ lookups = <<>>
    /\ wrote = FALSE
    /\ svc \in BOOLEAN
    /\ \/ /\ df \in {DataFrame(<<r>>) : r \in SingleRecords}
          /\ cacheFile = Absent
       \/ /\ df \in {DataFrame(rows) :
                       rows \in UNION {[1..n -> PoolRecords] : n \in 2..MaxBatch}}
          /\ cacheFile \in InitialFiles
       \/ /\ df = DataFrame(LongRows)
          /\ cacheFile \in InitialFiles
       \/ /\ df \in {DataFrame(rows) :
                       rows \in UNION {[1..n -> NullRecords] : n \in 1..2}}
          /\ cacheFile = Absent
    /\ durable = Pairs(FileData)

NextTransform ==
    \/ TransformBegin
    \/ GeocodeRow
    \/ FlushDump
    \/ FinalFlushOpen
    \/ TransformEnd
    \/ Crash
    \/ NextPass

SpecTransform == InitTransform /\ [][NextTransform]_vars

\* C6: over completed transform passes that share the cache file, no two
\* reverse-geocode lookups are for the same 3-decimal key, whether the first
\* one succeeded or failed, and every row resolved at a key that was looked
\* up gets the value of that lookup ("Unknown" if it failed).
C6_OneLookupPerKey ==
    /\ \A i, j \in 1..Len(lookups) :
          <<Round3(lookups[i].ll[1]), Round3(lookups[i].ll[2])>>
            = <<Round3(lookups[j].ll[1]), Round3(lookups[j].ll[2])>> => i = j
    /\ \A i \in 1..Len(cities) : \A j \in 1..Len(lookups) :
          <<Round3(work[i].latitude), Round3(work[i].longitude)>>
            = <<Round3(lookups[j].ll[1]), Round3(lookups[j].ll[2])>>
          => cities[i] = lookups[j].city

\* A second pass, with the service up, after a pass in which the lookup of a
\* place the service knows failed: the rows at that key stay "Unknown".
C6_Witness ==
    /\ runs = 2 /\ pc = "load" /\ svc
    /\ \E j \in 1..Len(lookups) :
          /\ lookups[j].city = "Unknown"
          /\ Place(lookups[j].ll[1], lookups[j].ll[2]).found
          /\ \E i, k \in 1..Len(work) :
                /\ i # k
                /\ Key(work[i].latitude, work[i].longitude)
                     = Key(lookups[j].ll[1], lookups[j].ll[2])
                /\ Key(work[k].latitude, work[k].longitude)
                     = Key(lookups[j].ll[1], lookups[j].ll[2])
                /\ df_clean.rows[i].city = "Unknown"
                /\ df_clean.rows[k].city = "Unknown"

\* C7: at every point of a transform pass fewer than 50 entries of the
\* in-memory cache are missing from the cache file.
C7_UnflushedBelow50 ==
    pc = "geocode" =>
        Cardinality(DOMAIN geocode_cache \ DOMAIN FileData) < 50

\* C8: an entry that a completed write put in the cache file is in the file,
\* with the same value, whenever no write is under way: after later flushes,
\* in later runs, and after the process is killed at any point.
C8_EntriesKept ==
    pc \notin {"flush", "final_flush"} => durable \subseteq Pairs(FileData)

\* The class the priority rule gives: Tesla, then BP, then Shell, by
\* case-insensitive substring, else Other.
PriorityClass(operator) ==
    IF Contains(Lower(operator), s_tesla) THEN sTesla
    ELSE IF Contains(Lower(operator), s_bp) THEN sBP
    ELSE IF Contains(Lower(operator), s_shell) THEN sShell
    ELSE sOther

\* C9: every record that transform returns has the operator class of the
\* priority rule: Tesla before BP before Shell, Other when none matches.
C9_OperatorClass ==
    pc = "load" =>
        \A i \in 1..Len(df_clean.rows) :
            df_clean.rows[i].operator_clean = PriorityClass(df_clean.rows[i].operator)

C11_FirstSeenWins ==
    pc = "load" =>
        /\ \A i, j \in 1..Len(df_clean.rows) :
              df_clean.rows[i].id = df_clean.rows[j].id => i = j
        /\ {df_clean.rows[i].id : i \in 1..Len(df_clean.rows)}
             = {df.rows[i].id : i \in 1..Len(df.rows)}
        /\ \A i \in 1..Len(df_clean.rows) :
              LET r == df_clean.rows[i]
                  first == CHOOSE j \in 1..Len(df.rows) :
                              /\ df.rows[j].id = r.id
                              /\ \A k \in 1..(j - 1) : df.rows[k].id # r.id
                  in == df.rows[first]
              IN /\ r.latitude = in.latitude /\ r.longitude = in.longitude
                 /\ r.operator = in.operator
                 /\ r.last_updated.defined <=> in.last_updated.k = "ts"
                 /\ r.last_updated.defined => r.last_updated.v = in.last_updated.h

\* The identifiers 1, 2, 1 with two different records of identifier 1: two
\* records come out.
C11_Witness ==
    /\ pc = "load"
    /\ Len(df.rows) = 3 /\ Len(df_clean.rows) = 2
    /\ df.rows[1].id = 1 /\ df.rows[2].id = 2 /\ df.rows[3].id = 1
    /\ df.rows[1].latitude # df.rows[3].latitude
    /\ df.rows[1].last_updated # df.rows[3].last_updated

(***************************************************************************)
(* etl_pipeline.py __main__: extract, transform, init_db, load_to_db,      *)
(* conn.close().  An exception ends the run where it is raised.            *)
(***************************************************************************)
MaxApiPages == 3

MainInitDb ==
    /\ pc = "load"
    /\ init_db
    /\ pc' = "loading"
    /\ UNCHANGED <<exVars, trVars, err>>

\* load_to_db(df_clean, conn), then conn.close(); when load_to_db raises, the
\* interpreter exits and the connection goes with it.  Either way what the
\* connection had not committed is rolled back.
MainLoad ==
    /\ pc = "loading"
    /\ conn.open
    /\ \E fault \in Faults :
          LET e == LoadEffect(conn, stations, df_clean, fault)
          IN /\ stations' = e.committed
             /\ conn' = [open |-> FALSE, pending |-> FALSE, view |-> e.committed]
             /\ last' = CallOf(df_clean, fault, e.outcome)
             /\ expected' = ExpectedAfter(df_clean, e.outcome)
             /\ pc' = IF e.outcome = "ok" THEN "done" ELSE "load_failed"
             /\ err' = IF e.outcome = "ok" THEN err ELSE "load"
    /\ UNCHANGED <<exVars, trVars>>

\* The stations the listing API holds.
Station1 ==
    RawStation(1, TRUE, <<312304, 1214737>>, Operator(<<"T", "e", "s", "l", "a", " ", "S", "u", "p", "e", "r", "c", "h", "a", "r", "g", "e", "r">>),
               AgedDays(200, 0), NoDate)
Station2 ==
    RawStation(2, TRUE, <<312296, 1214741>>, NoOperator, EmptyDate, AgedDays(5, 0))
Station1Again ==
    RawStation(1, TRUE, <<399042, 1164074>>, Operator(<<"b", "p", " ", "p", "u", "l", "s", "e">>),
               NoDate, NoDate)
StationNoAddress ==
    RawStation(3, FALSE, <<0, 0>>, NoOperator, NoDate, NoDate)

Responses ==
    {OkPage(<<Station1, Station2>>), OkPage(<<Station1Again>>),
     OkPage(<<StationNoAddress>>), OkPage(<<>>), EmptyBody, ErrorPage}

InitPipeline ==
    /\ api \in SeqsUpTo(Responses, MaxApiPages)
    /\ max_pages \in {0, 2}
    /\ skip = 0 /\ page = 0 /\ all_stations = <<>> /\ requests = <<>>
    /\ df = NoDf
    /\ pc = "extract" /\ err = ""
    /\ stations \in {{}, {[id |-> 1, city |-> "Beijing"]}}
    /\ conn = [open |-> FALSE, pending |-> FALSE, view |-> stations]
    /\ last = [seq |-> 0, df |-> NoDf, fault |-> "none", outcome |-> "none",
               repeat |-> FALSE]
    /\ expected = stations
    /\ cacheFile \in {Absent, Written(Filler(FlushEvery - 1))}
    /\ TransformIdle
    /\ svc \in BOOLEAN
    /\ durable = Pairs(FileData)

NextPipeline ==
    \/ FetchPage
    \/ TransformBegin
    \/ GeocodeRow
    \/ FlushDump
    \/ FinalFlushOpen
    \/ TransformEnd
    \/ MainInitDb
    \/ MainLoad

SpecPipeline == InitPipeline /\ [][NextPipeline]_vars

\* C3: when a run's extract and transform complete on a non-empty batch, the
\* load succeeds, and the stations table then holds for each identifier of
\* the transform output exactly that record, the rows of other identifiers
\* being the ones it held before.
C3_PipelineLoads ==
    (pc \in {"done", "load_failed"} /\ last.fault = "none"
       /\ Len(df_clean.rows) > 0) =>
        /\ pc = "done"
        /\ last.outcome = "ok"
        /\ Range(df_clean.rows) \subseteq stations
        /\ \A r \in stations :
              \/ r \in Range(df_clean.rows)
              \/ r \in expected /\ \A i \in 1..Len(df_clean.rows) :
                                      df_clean.rows[i].id # r.id

\* The page the listing API holds at a position.
PageNo(n) == IF n <= Len(api) THEN api[n] ELSE OkPage(<<>>)

ZeroRecords(response) == ~response.text \/ Len(response.data) = 0

RECURSIVE RecordsUpTo(_)
RecordsUpTo(n) ==
    IF n = 0 THEN <<>>
    ELSE RecordsUpTo(n - 1)
         \o [i \in 1..Len(PageNo(n).data) |-> StationInfo(PageNo(n).data[i])]

\* C4: without a page limit, the requests go to the offsets 0, 500, 1000, ...
\* in order, and an extraction that returns has stopped at the first page of
\* zero records: it returns the records of all pages before it, in order, and
\* has made one request more than there are such pages.
C4_Pagination ==
    max_pages = 0 =>
        /\ \A i \in 1..Len(requests) : requests[i] = 500 * (i - 1)
        /\ page = Len(requests)
        /\ pc \notin {"extract", "extract_failed"} =>
              LET n == Len(requests) - 1
              IN /\ n >= 0
                 /\ ZeroRecords(PageNo(n + 1))
                 /\ \A i \in 1..n : ~ZeroRecords(PageNo(i))
                 /\ df.rows = RecordsUpTo(n)

\* Two pages of records, then a page of none: three requests.
C4_Witness ==
    /\ max_pages = 0 /\ pc = "transform"
    /\ requests = <<0, 500, 1000>>
    /\ Len(df.rows) = Len(PageNo(1).data) + Len(PageNo(2).data)
    /\ Len(PageNo(1).data) = 2 /\ Len(PageNo(2).data) = 1
    /\ Len(api) = 3 /\ PageNo(3) = OkPage(<<>>)

\* C5: a request that gets a non-success status makes extract fail, on the
\* first page or a later one; nothing of what it had accumulated is returned,
\* and the run does no transform, writes neither the cache file nor the
\* stations table.
C5_AllOrNothing ==
    /\ \A i \in 1..Len(requests) :
          ResponseAt(500 * (i - 1)).status # 200 =>
              pc = "extract_failed" /\ err = "status"
    /\ pc = "extract_failed" =>
          /\ df = NoDf
          /\ work = <<>> /\ cities = <<>> /\ df_clean = NoDf /\ lookups = <<>>
          /\ geocode_cache = EmptyCache
          /\ ~wrote /\ Pairs(FileData) = durable
          /\ ~conn.open /\ last.outcome = "none" /\ stations = expected

\* The failure comes on a later page, after records were accumulated.
C5_Witness ==
    /\ pc = "extract_failed" /\ err = "status"
    /\ page >= 2
    /\ Len(all_stations) > 0

\* C12: a transform of an empty batch, the batch that extract returns when
\* the first page has no records included, raises no error and returns an
\* empty frame.
C12_EmptyTransform ==
    (pc \notin {"extract", "extract_failed"} /\ Len(df.rows) = 0) =>
        /\ pc # "transform_failed"
        /\ Len(df_clean.rows) = 0

\* C13: get_city_cached never fails: no pass ends on an error raised in it;
\* a row with a missing coordinate gets "Unknown"; a lookup gives "Unknown"
\* when the service has no location for the place, and otherwise either the
\* "city" attribute, else "town", else "Unknown", or "Unknown" for a lookup
\* that failed.
C13_ResolveNeverFails ==
    /\ err # "TypeError"
    /\ \A i \in 1..Len(cities) :
          ({work[i].latitude, work[i].longitude} \cap {NoneCoord, NaNCoord} # {})
             => cities[i] = "Unknown"
    /\ \A j \in 1..Len(lookups) :
          LET lat == lookups[j].ll[1]
              lon == lookups[j].ll[2]
              p == Place(lat, lon)
              attr == IF p.city # "" THEN p.city
                      ELSE IF p.town # "" THEN p.town ELSE "Unknown"
          IN IF lat = NaNCoord \/ lon = NaNCoord \/ ~p.found
             THEN lookups[j].city = "Unknown"
             ELSE lookups[j].city \in {attr, "Unknown"}

\* C14: at the cache load of a pass, a missing cache file gives an empty
\* cache and no error; an existing file that cannot be parsed ends the pass
\* with an error before any lookup, and the file stays as it was, then and
\* afterwards.
C14_CacheLoad ==
    [][/\ (pc = "transform" /\ pc' # "transform" /\ "id" \in df.columns) =>
            /\ ~cacheFile.exists =>
                  /\ pc' = "geocode" /\ err' = err
                  /\ geocode_cache' = EmptyCache
                  /\ cacheFile' = cacheFile
            /\ (cacheFile.exists /\ ~cacheFile.valid) =>
                  /\ pc' = "transform_failed" /\ err' = "JSONDecodeError"
                  /\ cacheFile' = cacheFile
                  /\ lookups' = lookups /\ wrote' = wrote
       /\ pc = "transform_failed" =>
            pc' = pc /\ cacheFile' = cacheFile /\ lookups' = lookups]_vars

\* The first pass of a run found a cache file cut off in its JSON text.
C14_Witness ==
    /\ pc = "transform_failed" /\ err = "JSONDecodeError"
    /\ runs = 1 /\ lookups = <<>> /\ ~wrote
    /\ cacheFile = Corrupt

====
